---- MODULE Spec2Model ----
(***************************************************************************)
(* Model of the dashboard endpoint GET /api/dashboardData                  *)
(* (src/apiDashboardData.py).                                              *)
(*                                                                         *)
(* Dates are proleptic Gregorian ordinals, as Python's datetime.date       *)
(* keeps them; strings that carry dates are sequences of one-character     *)
(* strings so that strptime / strftime are computed, not assumed.          *)
(* The tables of the persistence layer are bags of rows (two rows may      *)
(* agree in every column the endpoint reads).  Guest identities are left   *)
(* out: totalGuests / totalGuestsChange are not modelled.  figures is the   *)
(* registry of open figures of matplotlib.pyplot, shared by the workers    *)
(* of a process.                                                           *)
(*                                                                         *)
(* Spec        the tables change between requests; few query strings       *)
(* SpecPeriod  fixed tables; every query string over the corner days       *)
(* SpecPct     calculate_percentage_change over a range of integers        *)
(* SpecCall    calculate_percentage_change over Python values, with the    *)
(*             exceptions it raises                                        *)
(* SpecSeries  the date-series loops of lines 175-253, step by step        *)
(* SpecFault   one worker, step by step, every step of which may raise     *)
(* SpecThreads two worker threads exporting PDFs side by side              *)
(***************************************************************************)
EXTENDS Integers, Sequences, FiniteSets, Bags, TLC

VARIABLES roomStatus, venueStatus, roomRes, venueRes, receipts,
          today, pc, request, response, locals, figures

vars == <<roomStatus, venueStatus, roomRes, venueRes, receipts,
          today, pc, request, response, locals, figures>>

dbvars == <<roomStatus, venueStatus, roomRes, venueRes, receipts>>

-----------------------------------------------------------------------------
(* Calendar: calendar.monthrange, datetime.date, timedelta                 *)

Years == 2023..2025

IsLeap(y) == (y % 4 = 0 /\ y % 100 # 0) \/ (y % 400 = 0)

\* calendar.monthrange(year, month)[1]: the number of days of the month
monthrange(y, m) ==
    IF m = 2 THEN (IF IsLeap(y) THEN 29 ELSE 28)
    ELSE IF m \in {4, 6, 9, 11} THEN 30 ELSE 31

\* days before January 1st of year y (datetime._days_before_year)
DaysBeforeYear(y) ==
    LET p == y - 1 IN p * 365 + (p \div 4) - (p \div 100) + (p \div 400)

\* days of the year before the first of month m (datetime._days_before_month)
DaysBeforeMonth(y, m) ==
    <<0, 31, 59, 90, 120, 151, 181, 212, 243, 273, 304, 334>>[m]
    + (IF m > 2 /\ IsLeap(y) THEN 1 ELSE 0)

\* date(y, m, d).toordinal()
Date(y, m, d) == DaysBeforeYear(y) + DaysBeforeMonth(y, m) + d

IsValidDate(y, m, d) ==
    /\ y \in Years
    /\ m \in 1..12
    /\ d \in 1..monthrange(y, m)

\* date.fromordinal(n).year / .month / .day
YearOf(n) ==
    CHOOSE y \in Years : DaysBeforeYear(y) < n /\ n <= DaysBeforeYear(y + 1)

MonthOf(n) ==
    LET y == YearOf(n)
        r == n - DaysBeforeYear(y)
    IN  CHOOSE m \in 1..12 :
            DaysBeforeMonth(y, m) < r /\ r <= DaysBeforeMonth(y, m) + monthrange(y, m)

DayOf(n) == n - DaysBeforeYear(YearOf(n)) - DaysBeforeMonth(YearOf(n), MonthOf(n))

-----------------------------------------------------------------------------
(* Date strings: datetime.strptime(s, '%Y-%m-%d') and date.strftime        *)

Digits == <<"0", "1", "2", "3", "4", "5", "6", "7", "8", "9">>

IsDigit(c) == \E i \in 1..10 : Digits[i] = c

DigitVal(c) == (CHOOSE i \in 1..10 : Digits[i] = c) - 1

AllDigits(s) == \A i \in 1..Len(s) : IsDigit(s[i])

RECURSIVE ParseInt(_)
ParseInt(s) ==
    IF Len(s) = 0 THEN 0
    ELSE 10 * ParseInt(SubSeq(s, 1, Len(s) - 1)) + DigitVal(s[Len(s)])

\* n written with exactly w digits, zero padded
RECURSIVE Pad(_, _)
Pad(n, w) ==
    IF w = 0 THEN <<>> ELSE Append(Pad(n \div 10, w - 1), Digits[(n % 10) + 1])

\* d.strftime('%Y-%m-%d')
FormatDay(n) ==
    Pad(YearOf(n), 4) \o <<"-">> \o Pad(MonthOf(n), 2) \o <<"-">> \o Pad(DayOf(n), 2)

\* d.strftime('%Y-%m')
FormatMonth(n) == Pad(YearOf(n), 4) \o <<"-">> \o Pad(MonthOf(n), 2)

\* datetime.strptime(s, '%Y-%m-%d').date(): [ok |-> TRUE, date |-> ordinal],
\* or [ok |-> FALSE] where Python raises ValueError.  %Y takes exactly four
\* digits, %m and %d one or two digits (1..12, 1..31); the text must be used
\* up; the date must exist in the calendar.
strptime(s) ==
    LET dashes == {i \in 1..Len(s) : s[i] = "-"}
    IN  IF Cardinality(dashes) # 2 THEN [ok |-> FALSE]
        ELSE
          LET i == CHOOSE a \in dashes : \A b \in dashes : a <= b
              j == CHOOSE a \in dashes : \A b \in dashes : a >= b
              Y == SubSeq(s, 1, i - 1)
              M == SubSeq(s, i + 1, j - 1)
              D == SubSeq(s, j + 1, Len(s))
          IN  IF /\ Len(Y) = 4 /\ AllDigits(Y)
                 /\ Len(M) \in 1..2 /\ AllDigits(M)
                 /\ Len(D) \in 1..2 /\ AllDigits(D)
                 /\ ParseInt(M) \in 1..12
                 /\ ParseInt(D) \in 1..31
                 /\ IsValidDate(ParseInt(Y), ParseInt(M), ParseInt(D))
              THEN [ok |-> TRUE, date |-> Date(ParseInt(Y), ParseInt(M), ParseInt(D))]
              ELSE [ok |-> FALSE]

-----------------------------------------------------------------------------
(* Bounds and input sets                                                   *)

\* the most rows the three tables hold together
MaxRows == 2

Rooms == {1, 2}
Venues == {1}
Statuses == {"ready", "maintenance"}

\* room_type_id of a room (Room.room_type_id -> RoomType.room_type_name)
RoomTypeOf(room_id) == IF room_id % 2 = 1 THEN "Single" ELSE "Double"

\* request.args.get(k): <<>> when the parameter is missing, <<v>> when present
Has(a) == a # <<>>
Val(a) == a[1]

-----------------------------------------------------------------------------
(* Rows and aggregates of the persistence layer                            *)

RECURSIVE Total(_)
\* the sum of the values of a function with a finite domain
Total(f) ==
    IF DOMAIN f = {} THEN 0
    ELSE LET x == CHOOSE x \in DOMAIN f : TRUE
         IN  f[x] + Total([y \in (DOMAIN f) \ {x} |-> f[y]])

\* the rows of table B that satisfy P, with their multiplicity (Query.filter)
Filter(B, P(_)) == [r \in {x \in BagToSet(B) : P(x)} |-> CopiesIn(r, B)]

\* func.count over the rows selected by P; len() of the list .all() returns
CountRows(B, P(_)) == Total(Filter(B, P))

\* func.sum(col) over the rows selected by P, "or 0" for the NULL of no rows
SumRows(B, P(_), col(_)) ==
    Total([r \in {x \in BagToSet(B) : P(x)} |-> col(r) * CopiesIn(r, B)])

AddRow(B, r) == B (+) SetToBag({r})

-----------------------------------------------------------------------------
(* Helpers of the endpoint                                                 *)

\* get_month_range(date_obj): <<first day, last day>> of the month
get_month_range(date_obj) ==
    <<Date(YearOf(date_obj), MonthOf(date_obj), 1),
      Date(YearOf(date_obj), MonthOf(date_obj),
           monthrange(YearOf(date_obj), MonthOf(date_obj)))>>

Abs(x) == IF x < 0 THEN -x ELSE x

\* a rational number num / den, den > 0
Rat(n, d) == [num |-> n, den |-> d]

\* a slip: the difference is divided by previous, not by abs(previous)
calculate_percentage_change_NoAbs(current, previous) ==
    IF previous = 0
    THEN (IF current > 0 THEN Rat(100, 1) ELSE Rat(0, 1))
    ELSE Rat((current - previous) * 100, previous)

\* calculate_percentage_change(current, previous) on numbers: the exact
\* value of ((current - previous) / abs(previous)) * 100
calculate_percentage_change(current, previous) ==
    IF previous = 0
    THEN (IF current > 0 THEN Rat(100, 1) ELSE Rat(0, 1))
    ELSE Rat((current - previous) * 100, Abs(previous))

\* round(q, 1): the nearest multiple of 1/10, ties to the even one
Round1(q) ==
    LET n == q.num * 10
        f == n \div q.den
        r == n % q.den
    IN  IF 2 * r < q.den THEN Rat(f, 10)
        ELSE IF 2 * r > q.den THEN Rat(f + 1, 10)
        ELSE IF f % 2 = 0 THEN Rat(f, 10) ELSE Rat(f + 1, 10)

\* a slip: the lower bound of the range is left out
get_date_range_filter_NoLowerBound(start_date, end_date, col) ==
    col <= end_date

\* get_date_range_filter(start_date, end_date, date_column) on one row's value
get_date_range_filter(start_date, end_date, col) ==
    col >= start_date /\ col <= end_date

\* the reservations of ready rooms whose booking start date is in the window
\* (the query of lines 121-126 and 152-157)
RoomReservationsIn(start_date, end_date) ==
    Filter(roomRes, LAMBDA r :
        /\ roomStatus[r.room_id] = "ready"
        /\ get_date_range_filter(start_date, end_date, r.start))

\* the same for venues (lines 128-133 and 159-164)
VenueReservationsIn(start_date, end_date) ==
    Filter(venueRes, LAMBDA v :
        /\ venueStatus[v.venue_id] = "ready"
        /\ get_date_range_filter(start_date, end_date, v.start))

\* func.sum(Receipt.receipt_total_amount) over the window, or 0
RevenueIn(start_date, end_date) ==
    SumRows(receipts,
            LAMBDA r : get_date_range_filter(start_date, end_date, r.date),
            LAMBDA r : r.amount)

\* get_available_spaces(start_date, end_date)
get_available_spaces(start_date, end_date) ==
    LET total_rooms == Cardinality({r \in Rooms : roomStatus[r] = "ready"})
        total_venues == Cardinality({v \in Venues : venueStatus[v] = "ready"})
        occupied_rooms == Total(RoomReservationsIn(start_date, end_date))
        occupied_venues == Total(VenueReservationsIn(start_date, end_date))
    IN  (total_rooms - occupied_rooms) + (total_venues - occupied_venues)

\* a slip: the last day is taken from the month of start_date
reset_date_range_StartMonth(start_date, end_date, view_mode, today_) ==
    IF view_mode = "monthly"
    THEN <<Date(YearOf(start_date), MonthOf(start_date), 1),
           Date(YearOf(end_date), MonthOf(end_date),
                monthrange(YearOf(start_date), MonthOf(start_date)))>>
    ELSE <<today_ - 6, today_>>

\* a slip: the daily view keeps the dates of the caller
reset_date_range_KeepDates(start_date, end_date, view_mode, today_) ==
    IF view_mode = "monthly"
    THEN <<Date(YearOf(start_date), MonthOf(start_date), 1),
           Date(YearOf(end_date), MonthOf(end_date),
                monthrange(YearOf(end_date), MonthOf(end_date)))>>
    ELSE <<start_date, end_date>>

\* reset_date_range(start_date, end_date, view_mode); date.today() is today_
reset_date_range(start_date, end_date, view_mode, today_) ==
    IF view_mode = "monthly"
    THEN <<Date(YearOf(start_date), MonthOf(start_date), 1),
           Date(YearOf(end_date), MonthOf(end_date),
                monthrange(YearOf(end_date), MonthOf(end_date)))>>
    ELSE <<today_ - 6, today_>>

\* a slip: the previous period is one day too long
PreviousPeriod_OneDayLonger(start_date, end_date) ==
    LET period_length == (end_date - start_date) + 1
        prev_end_date == start_date - 1
        prev_start_date == prev_end_date - period_length
    IN  <<prev_start_date, prev_end_date>>

\* lines 146-149: <<prev_start_date, prev_end_date>>
PreviousPeriod(start_date, end_date) ==
    LET period_length == (end_date - start_date) + 1
        prev_end_date == start_date - 1
        prev_start_date == prev_end_date - (period_length - 1)
    IN  <<prev_start_date, prev_end_date>>

\* lines 181-184: the first day of the month after current_date's
NextMonthStart(current_date) ==
    IF MonthOf(current_date) = 12
    THEN Date(YearOf(current_date) + 1, 1, 1)
    ELSE Date(YearOf(current_date), MonthOf(current_date) + 1, 1)

\* lines 178-184, monthly branch: the while loop from current_date
RECURSIVE MonthlyDates(_, _)
MonthlyDates(current_date, end_date) ==
    IF current_date <= end_date
    THEN <<current_date>> \o MonthlyDates(NextMonthStart(current_date), end_date)
    ELSE <<>>

\* a slip: range() without the + 1 drops the last day of the window
DailyDates_MissingLastDay(start_date, end_date) ==
    [x \in 1..(end_date - start_date) |-> start_date + (x - 1)]

\* line 186: one date per day of the window
DailyDates(start_date, end_date) ==
    [x \in 1..((end_date - start_date) + 1) |-> start_date + (x - 1)]

\* lines 176-186: the list dates
DateSeries(start_date, end_date, view_mode) ==
    IF view_mode = "monthly"
    THEN MonthlyDates(start_date, end_date)
    ELSE DailyDates(start_date, end_date)

\* a slip: containment in the bucket instead of overlap with it
OccupiedCount_Containment(lo, hi) ==
    CountRows(roomRes, LAMBDA r :
        /\ roomStatus[r.room_id] = "ready"
        /\ r.start >= lo
        /\ r.end <= hi)

\* the occupancy count of one bucket [lo, hi] (lines 196-204 and 227-235)
OccupiedCount(lo, hi) ==
    CountRows(roomRes, LAMBDA r :
        /\ roomStatus[r.room_id] = "ready"
        /\ r.start <= hi
        /\ r.end >= lo)

\* lines 192-253: one occupancy_data entry for current_date
OccupancyEntry(current_date, view_mode) ==
    IF view_mode = "monthly"
    THEN [date |-> FormatMonth(current_date),
          occupancy |-> OccupiedCount(get_month_range(current_date)[1],
                                      get_month_range(current_date)[2])]
    ELSE [date |-> FormatDay(current_date),
          occupancy |-> OccupiedCount(current_date, current_date)]

\* a slip: the daily bucket also takes the receipts of the next day
RevenueEntry_WithNextDay(current_date, view_mode) ==
    IF view_mode = "monthly"
    THEN [date |-> FormatMonth(current_date),
          revenue |-> RevenueIn(get_month_range(current_date)[1],
                                get_month_range(current_date)[2])]
    ELSE [date |-> FormatDay(current_date),
          revenue |-> RevenueIn(current_date, current_date + 1)]

\* lines 192-253: one revenue_data entry for current_date
RevenueEntry(current_date, view_mode) ==
    IF view_mode = "monthly"
    THEN [date |-> FormatMonth(current_date),
          revenue |-> RevenueIn(get_month_range(current_date)[1],
                                get_month_range(current_date)[2])]
    ELSE [date |-> FormatDay(current_date),
          revenue |-> RevenueIn(current_date, current_date)]

\* lines 256-283: one row per room type with a booking in the window
RoomTypeData(start_date, end_date) ==
    LET rows == RoomReservationsIn(start_date, end_date)
        types == {RoomTypeOf(r.room_id) : r \in DOMAIN rows}
        ofType(t) == [r \in {x \in DOMAIN rows : RoomTypeOf(x.room_id) = t} |-> rows[r]]
    IN  {[roomType |-> t,
          bookingFrequency |-> Total(ofType(t)),
          avgStayDuration |->
              Rat(Total([r \in DOMAIN ofType(t) |-> (r.end - r.start) * rows[r]]),
                  Total(ofType(t)))] : t \in types}

-----------------------------------------------------------------------------
(* Responses                                                               *)

\* jsonify({"error": msg}), code
ErrorResponse(code, msg) ==
    [status |-> code, kind |-> "json", body |-> [error |-> msg]]

\* round(q): the nearest integer, ties to the even one
Round0(q) ==
    LET f == q.num \div q.den
        r == q.num % q.den
    IN  IF 2 * r < q.den THEN f
        ELSE IF 2 * r > q.den THEN f + 1
        ELSE IF f % 2 = 0 THEN f ELSE f + 1

\* export_excel(dashboard_data, ...): assigning the three column names of the
\* 'Room Performance' sheet (line 415) raises ValueError on a frame built
\* from no rows; the except clause answers 500
export_excel(dashboard_data) ==
    IF dashboard_data.roomTypePerformance = {}
    THEN ErrorResponse(500, "Failed to generate Excel report")
    ELSE [status |-> 200, kind |-> "xlsx", body |-> dashboard_data]

\* export_pdf(dashboard_data): the conclusion paragraph (line 666) divides
\* each visitors value by their sum; ZeroDivisionError is caught by the
\* except clause, which answers 500
export_pdf(dashboard_data) ==
    LET visitors == [i \in 1..2 |-> dashboard_data.visitorData[i].visitors]
        total_visitors == visitors[1] + visitors[2]
    IN  IF total_visitors = 0
        THEN ErrorResponse(500, "Failed to generate PDF report")
        ELSE [status |-> 200, kind |-> "pdf",
              body |-> [summary |-> dashboard_data,
                        roomGuestsPct |-> Round0(Rat(visitors[1] * 100, total_visitors)),
                        venueVisitorsPct |-> Round0(Rat(visitors[2] * 100, total_visitors))]]

-----------------------------------------------------------------------------
(* matplotlib.pyplot (lines 14-16): figures is the registry of the open    *)
(* figures of the process, the current figure last.  A figure is the set   *)
(* of the workers that have drawn on it                                    *)

MaxLeaked == 1

BlankFigure == {}

\* plt.figure(), and the figure made by plt.subplots(): a new figure is
\* registered and becomes the current one
plt_figure(figs) == Append(figs, BlankFigure)

\* plt.bar, plt.plot, plt.pie, plt.title, ...: they draw on the current
\* figure, and make one when none is open
plt_draw(figs, w) ==
    IF figs = <<>> THEN <<{w}>>
    ELSE [figs EXCEPT ![Len(figs)] = @ \cup {w}]

\* plt.savefig(buffer) writes the current figure, and makes one when none is
\* open: <<registry after the call, picture written>>
plt_savefig(figs) ==
    IF figs = <<>> THEN <<<<BlankFigure>>, BlankFigure>>
    ELSE <<figs, figs[Len(figs)]>>

\* plt.close(): the current figure leaves the registry; nothing happens
\* when none is open
plt_close(figs) ==
    IF figs = <<>> THEN figs ELSE SubSeq(figs, 1, Len(figs) - 1)

\* the four charts of export_pdf in order, and the one that also calls
\* plt.subplots (line 625)
Charts == <<"occupancy", "revenue", "visitors", "performance">>

\* lines 524-541, 553-574, 586-609 and 622-655 run by one worker alone: the
\* registry after chart number c and the ones before it
RECURSIVE ChartsUpTo(_, _)
ChartsUpTo(figs, c) ==
    IF c = 0 THEN figs
    ELSE LET before == ChartsUpTo(figs, c - 1)
             opened == IF Charts[c] = "performance"
                       THEN plt_figure(plt_figure(before))
                       ELSE plt_figure(before)
             drawn == plt_draw(opened, 1)
         IN  plt_close(plt_savefig(drawn)[1])

\* the registry after the charts of export_pdf, run by one worker alone
ChartsOfPdf(figs) == ChartsUpTo(figs, Len(Charts))

-----------------------------------------------------------------------------
(* The endpoint                                                            *)

\* a slip: a window of a single day is refused (>= for >)
ParseDates_RefuseSingleDay(args, today_) ==
    LET end_given == Has(args.endDate) /\ Val(args.endDate) # <<>>
        start_given == Has(args.startDate) /\ Val(args.startDate) # <<>>
        end_parsed == IF end_given THEN strptime(Val(args.endDate))
                      ELSE [ok |-> TRUE, date |-> today_]
        start_parsed == IF start_given THEN strptime(Val(args.startDate))
                        ELSE [ok |-> TRUE, date |-> end_parsed.date - 6]
    IN  IF ~end_parsed.ok \/ ~start_parsed.ok
        THEN [ok |-> FALSE, error |-> "Invalid date format. Use YYYY-MM-DD"]
        ELSE IF start_parsed.date >= end_parsed.date
        THEN [ok |-> FALSE, error |-> "Start date cannot be after end date"]
        ELSE [ok |-> TRUE, start_date |-> start_parsed.date, end_date |-> end_parsed.date]

\* lines 106-113: [ok |-> TRUE, start_date, end_date] or [ok |-> FALSE, error]
\* A parameter that is missing or empty is falsy and takes its default.
ParseDates(args, today_) ==
    LET end_given == Has(args.endDate) /\ Val(args.endDate) # <<>>
        start_given == Has(args.startDate) /\ Val(args.startDate) # <<>>
        end_parsed == IF end_given THEN strptime(Val(args.endDate))
                      ELSE [ok |-> TRUE, date |-> today_]
        start_parsed == IF start_given THEN strptime(Val(args.startDate))
                        ELSE [ok |-> TRUE, date |-> end_parsed.date - 6]
    IN  IF ~end_parsed.ok \/ ~start_parsed.ok
        THEN [ok |-> FALSE, error |-> "Invalid date format. Use YYYY-MM-DD"]
        ELSE IF start_parsed.date > end_parsed.date
        THEN [ok |-> FALSE, error |-> "Start date cannot be after end date"]
        ELSE [ok |-> TRUE, start_date |-> start_parsed.date, end_date |-> end_parsed.date]

\* a slip: the distinct reservations instead of the length of the list
VisitorData_Distinct(room_reservations, venue_reservations) ==
    <<[name |-> "Room Guests", visitors |-> Cardinality(DOMAIN room_reservations)],
      [name |-> "Venue Visitors", visitors |-> Cardinality(DOMAIN venue_reservations)]>>

\* lines 285-294: visitor_data
VisitorData(room_reservations, venue_reservations) ==
    <<[name |-> "Room Guests", visitors |-> Total(room_reservations)],
      [name |-> "Venue Visitors", visitors |-> Total(venue_reservations)]>>

\* lines 320-337: the dict dashboard_data
DashboardData(start_date, end_date, prev_start_date, prev_end_date, view_mode, dates) ==
    LET room_reservations == RoomReservationsIn(start_date, end_date)
        venue_reservations == VenueReservationsIn(start_date, end_date)
        current_bookings == Total(room_reservations) + Total(venue_reservations)
        current_revenue == RevenueIn(start_date, end_date)
        current_available_spaces == get_available_spaces(start_date, end_date)
        prev_room_reservations == RoomReservationsIn(prev_start_date, prev_end_date)
        prev_venue_reservations == VenueReservationsIn(prev_start_date, prev_end_date)
        prev_bookings == Total(prev_room_reservations) + Total(prev_venue_reservations)
        prev_revenue == RevenueIn(prev_start_date, prev_end_date)
        prev_available_spaces == get_available_spaces(prev_start_date, prev_end_date)
        total_visitors == Total(room_reservations) + Total(venue_reservations)
        prev_total_visitors == Total(prev_room_reservations) + Total(prev_venue_reservations)
        visitor_trending == calculate_percentage_change(total_visitors, prev_total_visitors)
        period == IF view_mode = "monthly" THEN "month" ELSE "week"
    IN  [totalBookings |-> current_bookings,
         totalBookingsChange |->
             Round1(calculate_percentage_change(current_bookings, prev_bookings)),
         totalBookingsPeriod |-> period,
         totalRevenue |-> current_revenue,
         totalRevenueChange |->
             Round1(calculate_percentage_change(current_revenue, prev_revenue)),
         totalRevenuePeriod |-> period,
         occupancyData |-> [i \in 1..Len(dates) |-> OccupancyEntry(dates[i], view_mode)],
         revenueData |-> [i \in 1..Len(dates) |-> RevenueEntry(dates[i], view_mode)],
         roomTypePerformance |-> RoomTypeData(start_date, end_date),
         visitorData |-> VisitorData(room_reservations, venue_reservations),
         visitorTrending |-> Round1(visitor_trending),
         availableSpaces |-> current_available_spaces,
         availableSpacesChange |->
             Round1(calculate_percentage_change(current_available_spaces,
                                                prev_available_spaces))]

\* a slip: an unknown format falls through to the JSON answer
ExportOrJson_FallThrough(export_format, dashboard_data) ==
    IF Has(export_format) /\ Val(export_format) = "excel" THEN export_excel(dashboard_data)
    ELSE IF Has(export_format) /\ Val(export_format) = "pdf" THEN export_pdf(dashboard_data)
    ELSE [status |-> 200, kind |-> "json", body |-> dashboard_data]

\* lines 339-348
ExportOrJson(export_format, dashboard_data) ==
    IF Has(export_format) /\ Val(export_format) # ""
    THEN IF Val(export_format) = "excel" THEN export_excel(dashboard_data)
         ELSE IF Val(export_format) = "pdf" THEN export_pdf(dashboard_data)
         ELSE ErrorResponse(400, "Unsupported export format")
    ELSE [status |-> 200, kind |-> "json", body |-> dashboard_data]

\* get_dashboard_data(): the response, and the locals of the run
\* (queries: the number of database queries the run issued)
get_dashboard_data(args, today_) ==
    LET view_mode == IF Has(args.viewMode) THEN Val(args.viewMode) ELSE "monthly"
        parsed == ParseDates(args, today_)
    IN  IF ~parsed.ok
        THEN [response |-> ErrorResponse(400, parsed.error),
              locals |-> [view_mode |-> view_mode, validated |-> FALSE, queries |-> 0]]
        ELSE
          LET window == reset_date_range(parsed.start_date, parsed.end_date,
                                         view_mode, today_)
              start_date == window[1]
              end_date == window[2]
              prev == PreviousPeriod(start_date, end_date)
              dates == DateSeries(start_date, end_date, view_mode)
              dashboard_data == DashboardData(start_date, end_date, prev[1], prev[2],
                                              view_mode, dates)
          IN  [response |-> ExportOrJson(args.export, dashboard_data),
               locals |-> [view_mode |-> view_mode, validated |-> TRUE,
                           req_start |-> parsed.start_date, req_end |-> parsed.end_date,
                           start_date |-> start_date, end_date |-> end_date,
                           prev_start_date |-> prev[1], prev_end_date |-> prev[2],
                           dates |-> dates,
                           queries |-> 17 + 2 * Len(dates)]]

-----------------------------------------------------------------------------
(* Inputs                                                                  *)

\* the days date.today() may return
Todays == {Date(2024, 2, 3), Date(2024, 6, 10)}

\* booking intervals <<start, end>> of the reservation rows
ResSpans == {<<Date(2024, 1, 25), Date(2024, 1, 30)>>,
             <<Date(2024, 1, 30), Date(2024, 2, 2)>>,
             <<Date(2024, 2, 2), Date(2024, 2, 2)>>}

ReceiptDays == {Date(2024, 1, 30), Date(2024, 2, 2)}
Amounts == {250}

OptionOf(S) == {<<>>} \cup {<<v>> : v \in S}

ArgsOver(starts, ends, modes, exports) ==
    [startDate : starts, endDate : ends, viewMode : modes, export : exports]

NoArgs == [startDate |-> <<>>, endDate |-> <<>>, viewMode |-> <<>>, export |-> <<>>]

\* the requests served while the tables change: with today on 2024-02-03
\* they ask for the months January and February, for February alone, or
\* for the last seven days
Requests ==
    ArgsOver({<<>>},
             OptionOf({FormatDay(Date(2024, 2, 20))}),
             {<<"monthly">>, <<"daily">>},
             OptionOf({"excel", "pdf"}))

\* days at the corners of the calendar: month ends, a leap and a common
\* February, a change of year
CornerDays ==
    {Date(2023, 2, 28), Date(2023, 12, 1), Date(2023, 12, 31),
     Date(2024, 1, 1), Date(2024, 1, 31), Date(2024, 2, 1), Date(2024, 2, 10),
     Date(2024, 2, 15), Date(2024, 2, 20), Date(2024, 2, 28), Date(2024, 2, 29),
     Date(2024, 3, 1), Date(2024, 3, 31), Date(2024, 6, 4), Date(2024, 6, 10)}

\* "not-a-date"
NotADate == <<"n", "o", "t", "-", "a", "-", "d", "a", "t", "e">>

\* texts strptime refuses: the empty text, words, a day the calendar does
\* not have (2023-02-29), a month 13, text after the day
BadDateStrings ==
    {<<>>, NotADate,
     <<"2", "0", "2", "3", "-", "0", "2", "-", "2", "9">>,
     <<"2", "0", "2", "4", "-", "1", "3", "-", "0", "1">>,
     <<"2", "0", "2", "4", "-", "0", "2", "-", "0", "1", "T">>}

\* the query strings of the period checks; 2024-2-5 is a date strptime takes
\* although it is not zero padded
DateStrings ==
    {FormatDay(d) : d \in CornerDays}
        \cup {<<"2", "0", "2", "4", "-", "2", "-", "5">>}
        \cup BadDateStrings

AllRequests ==
    ArgsOver(OptionOf(DateStrings), OptionOf(DateStrings),
             OptionOf({"monthly", "daily"}),
             OptionOf({"", "excel", "pdf", "xml"}))

RowCount == BagCardinality(roomRes) + BagCardinality(venueRes) + BagCardinality(receipts)

-----------------------------------------------------------------------------
(* State machine                                                           *)

Init ==
    /\ roomStatus = [r \in Rooms |-> "ready"]
    /\ venueStatus = [v \in Venues |-> "ready"]
    /\ roomRes = EmptyBag
    /\ venueRes = EmptyBag
    /\ receipts = EmptyBag
    /\ today = Date(2024, 2, 3)
    /\ figures = <<>>
    /\ pc = "idle"
    /\ request = NoArgs
    /\ response = <<>>
    /\ locals = <<>>

\* the persistence layer: rows written by the rest of the application
AddRoomReservation ==
    /\ pc = "idle"
    /\ RowCount < MaxRows
    /\ \E room \in Rooms, span \in ResSpans :
          roomRes' = AddRow(roomRes, [room_id |-> room, start |-> span[1], end |-> span[2]])
    /\ UNCHANGED <<roomStatus, venueStatus, venueRes, receipts,
                   today, pc, request, response, locals, figures>>

AddVenueReservation ==
    /\ pc = "idle"
    /\ RowCount < MaxRows
    /\ \E venue \in Venues, span \in ResSpans :
          venueRes' = AddRow(venueRes, [venue_id |-> venue, start |-> span[1], end |-> span[2]])
    /\ UNCHANGED <<roomStatus, venueStatus, roomRes, receipts,
                   today, pc, request, response, locals, figures>>

AddReceipt ==
    /\ pc = "idle"
    /\ RowCount < MaxRows
    /\ \E day \in ReceiptDays, amount \in Amounts :
          receipts' = AddRow(receipts, [date |-> day, amount |-> amount])
    /\ UNCHANGED <<roomStatus, venueStatus, roomRes, venueRes,
                   today, pc, request, response, locals, figures>>

SetRoomStatus ==
    /\ pc = "idle"
    /\ \E room \in Rooms, st \in Statuses :
          /\ roomStatus[room] # st
          /\ roomStatus' = [roomStatus EXCEPT ![room] = st]
    /\ UNCHANGED <<venueStatus, roomRes, venueRes, receipts,
                   today, pc, request, response, locals, figures>>

SetVenueStatus ==
    /\ pc = "idle"
    /\ \E venue \in Venues, st \in Statuses :
          /\ venueStatus[venue] # st
          /\ venueStatus' = [venueStatus EXCEPT ![venue] = st]
    /\ UNCHANGED <<roomStatus, roomRes, venueRes, receipts,
                   today, pc, request, response, locals, figures>>

\* one run of get_dashboard_data on the query parameters args, by a worker
\* that no other worker runs beside; a run that reaches export_pdf (line
\* 344) goes through its charts
Handle(args) ==
    /\ pc = "idle"
    /\ pc' = "done"
    /\ request' = args
    /\ \E run \in {get_dashboard_data(args, today)} :
          \E pdf \in {/\ run.locals.validated
                       /\ Has(args.export)
                       /\ Val(args.export) = "pdf"} :
             /\ pdf => Len(figures) < MaxLeaked
             /\ response' = run.response
             /\ locals' = run.locals
             /\ figures' = IF pdf THEN ChartsOfPdf(figures) ELSE figures
    /\ UNCHANGED <<dbvars, today>>

HandleRequest == \E args \in Requests : Handle(args)

\* the response has left; the worker waits for the next request
Respond ==
    /\ pc = "done"
    /\ pc' = "idle"
    /\ request' = NoArgs
    /\ response' = <<>>
    /\ locals' = <<>>
    /\ UNCHANGED <<dbvars, today, figures>>

Next ==
    \/ AddRoomReservation
    \/ AddVenueReservation
    \/ AddReceipt
    \/ SetRoomStatus
    \/ SetVenueStatus
    \/ HandleRequest
    \/ Respond

Spec == Init /\ [][Next]_vars

-----------------------------------------------------------------------------
(* The period checks: every query string over the corner days, on a fixed  *)
(* content of the tables                                                   *)

InitPeriod ==
    /\ roomStatus = [r \in Rooms |-> "ready"]
    /\ venueStatus = [v \in Venues |-> "ready"]
    /\ roomRes = SetToBag({[room_id |-> 1, start |-> Date(2024, 1, 30),
                            end |-> Date(2024, 2, 2)]})
    /\ venueRes = SetToBag({[venue_id |-> 1, start |-> Date(2024, 2, 2),
                             end |-> Date(2024, 2, 2)]})
    /\ receipts = SetToBag({[date |-> Date(2024, 2, 2), amount |-> 250]})
    /\ today \in Todays
    /\ figures = <<>>
    /\ pc = "idle"
    /\ request = NoArgs
    /\ response = <<>>
    /\ locals = <<>>

HandleAnyRequest == \E args \in AllRequests : Handle(args)

NextPeriod == HandleAnyRequest \/ Respond

SpecPeriod == InitPeriod /\ [][NextPeriod]_vars

-----------------------------------------------------------------------------
(* calculate_percentage_change on its own: request holds the arguments,    *)
(* response the value returned                                             *)

MaxValue == 100

PctValues == (0 - MaxValue)..MaxValue

InitPct ==
    /\ roomStatus = [r \in Rooms |-> "ready"]
    /\ venueStatus = [v \in Venues |-> "ready"]
    /\ roomRes = EmptyBag
    /\ venueRes = EmptyBag
    /\ receipts = EmptyBag
    /\ today = Date(2024, 2, 3)
    /\ figures = <<>>
    /\ pc = "pct"
    /\ request \in [current : PctValues, previous : PctValues]
    /\ response = <<>>
    /\ locals = <<>>

CallPct ==
    /\ pc = "pct"
    /\ pc' = "pct_done"
    /\ response' = calculate_percentage_change(request.current, request.previous)
    /\ UNCHANGED <<dbvars, today, figures, request, locals>>

NextPct == CallPct

SpecPct == InitPct /\ [][NextPct]_vars

-----------------------------------------------------------------------------
(* The date series step by step (lines 175-253): locals holds the window,  *)
(* the loop variable current_date and the three lists as they grow         *)

\* the aligned windows of requests over the corner days
SeriesWindows ==
    {w \in [start_date : CornerDays, end_date : CornerDays,
            view_mode : {"monthly", "daily"}] : w.start_date <= w.end_date}

InitSeries ==
    /\ roomStatus = [r \in Rooms |-> "ready"]
    /\ venueStatus = [v \in Venues |-> "ready"]
    /\ roomRes = SetToBag({[room_id |-> 1, start |-> Date(2024, 1, 30),
                            end |-> Date(2024, 2, 2)]})
    /\ venueRes = SetToBag({[venue_id |-> 1, start |-> Date(2024, 2, 2),
                             end |-> Date(2024, 2, 2)]})
    /\ receipts = SetToBag({[date |-> Date(2024, 2, 2), amount |-> 250]})
    /\ today \in Todays
    /\ figures = <<>>
    /\ pc = "dates"
    /\ request \in SeriesWindows
    /\ response = <<>>
    /\ locals = LET range == reset_date_range(request.start_date, request.end_date,
                                              request.view_mode, today)
                IN  [view_mode |-> request.view_mode,
                     start_date |-> range[1],
                     end_date |-> range[2],
                     current_date |-> range[1],
                     dates |-> <<>>,
                     occupancy_data |-> <<>>,
                     revenue_data |-> <<>>]

\* lines 176-178 and 186: dates = [], then the loop is entered or the daily
\* list is built at once
BuildDates ==
    /\ pc = "dates"
    /\ IF locals.view_mode = "monthly"
       THEN /\ pc' = "while"
            /\ locals' = [locals EXCEPT !.current_date = locals.start_date]
       ELSE /\ pc' = "for"
            /\ locals' = [locals EXCEPT
                              !.dates = DailyDates(locals.start_date, locals.end_date)]
    /\ UNCHANGED <<dbvars, today, figures, request, response>>

\* lines 179-184: one test of the while condition and, if it holds, one
\* pass through the body
WhileStep ==
    /\ pc = "while"
    /\ IF locals.current_date <= locals.end_date
       THEN /\ pc' = "while"
            /\ locals' = [locals EXCEPT
                              !.dates = Append(@, locals.current_date),
                              !.current_date = NextMonthStart(@)]
       ELSE /\ pc' = "for"
            /\ locals' = locals
    /\ UNCHANGED <<dbvars, today, figures, request, response>>

\* lines 192-253: one pass of the for loop over dates, or its end
ForStep ==
    /\ pc = "for"
    /\ IF Len(locals.occupancy_data) < Len(locals.dates)
       THEN LET current_date == locals.dates[Len(locals.occupancy_data) + 1]
            IN  /\ pc' = "for"
                /\ locals' = [locals EXCEPT
                      !.current_date = current_date,
                      !.occupancy_data =
                          Append(@, OccupancyEntry(current_date, locals.view_mode)),
                      !.revenue_data =
                          Append(@, RevenueEntry(current_date, locals.view_mode))]
       ELSE /\ pc' = "series_done"
            /\ locals' = locals
    /\ UNCHANGED <<dbvars, today, figures, request, response>>

NextSeries == BuildDates \/ WhileStep \/ ForStep

\* the worker thread keeps running the handler it has entered
SpecSeries == InitSeries /\ [][NextSeries]_vars /\ WF_vars(NextSeries)

-----------------------------------------------------------------------------
(* calculate_percentage_change on any Python values: request holds the     *)
(* arguments, response what the call did, a return or a raise.  An int is  *)
(* big * 10**400 + val: 10**400 is an int that no float can hold (the      *)
(* largest float is about 1.8 * 10**308)                                   *)

MaxSmall == 2

SmallInts == (0 - MaxSmall)..MaxSmall

PyInt(e, n) == [type |-> "int", big |-> e, val |-> n]

\* None
PyNone == [type |-> "NoneType"]

\* a str, "abc"
PyStr == [type |-> "str"]

PyValues == {PyInt(e, n) : e \in {-1, 0, 1}, n \in SmallInts} \cup {PyNone, PyStr}

Returned(value) == [raised |-> FALSE, value |-> value]

Raised(exc) == [raised |-> TRUE, exc |-> exc]

\* line 38, previous == 0: == between unlike types is False, never a fault
IsZero(x) == x.type = "int" /\ x.big = 0 /\ x.val = 0

\* the sign test of an int
IsNegative(x) == x.big < 0 \/ (x.big = 0 /\ x.val < 0)

\* line 39, current > 0 on an int
IsPositive(x) == x.big > 0 \/ (x.big = 0 /\ x.val > 0)

\* line 40, abs(previous) on an int
PyAbs(x) == IF IsNegative(x) THEN PyInt(0 - x.big, 0 - x.val) ELSE x

\* line 40, the true division of int a by int b > 0, times 100: the float
\* nearest to the quotient, or OverflowError when no float is that large
TrueDivideTimes100(a, b) ==
    IF b.big = 0
    THEN IF b.val = 0 THEN Raised("ZeroDivisionError")
         ELSE IF a.big # 0 THEN Raised("OverflowError")
         ELSE Returned(Rat(a.val * 100, b.val))
    ELSE Returned(Rat(a.big * 100, b.big))

\* lines 38-40: the body of the try; > and - between an int and None or a
\* str, and between two str or two None, raise TypeError
TryBody(current, previous) ==
    IF IsZero(previous)
    THEN IF current.type # "int" THEN Raised("TypeError")
         ELSE Returned(IF IsPositive(current) THEN Rat(100, 1) ELSE Rat(0, 1))
    ELSE IF current.type # "int" \/ previous.type # "int" THEN Raised("TypeError")
    ELSE TrueDivideTimes100(PyInt(current.big - previous.big,
                                  current.val - previous.val),
                            PyAbs(previous))

\* lines 36-43: calculate_percentage_change(current, previous) as a call
\* that returns or raises
calculate_percentage_change_call(current, previous) ==
    LET body == TryBody(current, previous)
    IN  IF body.raised /\ body.exc \in {"TypeError", "ZeroDivisionError"}
        THEN Returned(Rat(0, 1))
        ELSE body

InitCall ==
    /\ roomStatus = [r \in Rooms |-> "ready"]
    /\ venueStatus = [v \in Venues |-> "ready"]
    /\ roomRes = EmptyBag
    /\ venueRes = EmptyBag
    /\ receipts = EmptyBag
    /\ today = Date(2024, 2, 3)
    /\ figures = <<>>
    /\ pc = "call"
    /\ request \in [current : PyValues, previous : PyValues]
    /\ response = <<>>
    /\ locals = <<>>

Call ==
    /\ pc = "call"
    /\ pc' = "call_done"
    /\ response' = calculate_percentage_change_call(request.current, request.previous)
    /\ UNCHANGED <<dbvars, today, figures, request, locals>>

NextCall == Call

SpecCall == InitCall /\ [][NextCall]_vars

-----------------------------------------------------------------------------
(* The handler step by step, on worker threads of one process: pc, request *)
(* response and locals hold one value per worker, figures is shared.  A    *)
(* step may raise: a query of lines 119-318, a write of export_excel, a    *)
(* call of export_pdf.  The elements of the PDF are kept as the number of  *)
(* chart images appended and whether one of them shows anything but the    *)
(* drawing of the worker itself                                            *)

NoElements == [images |-> 0, foreign |-> FALSE]

\* elements.append(Image(buffer)) for the picture of a figure
AppendImage(elements, picture, w) ==
    [images |-> elements.images + 1,
     foreign |-> elements.foreign \/ picture # {w}]

\* GET ?export=xml
UnsupportedExport == [NoArgs EXCEPT !.export = <<"xml">>]

\* GET ?startDate=not-a-date
UnparsedStart == [NoArgs EXCEPT !.startDate = <<NotADate>>]

\* the requests of the step-by-step runs
StepRequests == Requests \cup {UnsupportedExport, UnparsedStart}

\* the sheets of export_excel in the order written (lines 397-420)
Sheets == <<"Summary", "Occupancy", "Revenue", "Room Performance", "Visitors">>

\* lines 350-352: the except clause of get_dashboard_data
get_dashboard_data_except == ErrorResponse(500, "An internal server error occurred")

\* lines 432-434: the except clause of export_excel; the sheets written so
\* far stay in the local buffer
export_excel_except(sheets) == ErrorResponse(500, "Failed to generate Excel report")

\* a slip: the except clause answers with what had been rendered
export_pdf_except_Partial(elements) ==
    [status |-> 200, kind |-> "pdf", body |-> [charts |-> elements]]

\* lines 682-684: the except clause of export_pdf; the elements built so far
\* are dropped
export_pdf_except(elements) == ErrorResponse(500, "Failed to generate PDF report")

\* lines 674-680: the response that carries the built document
PdfResponse(dashboard_data, elements) ==
    LET whole == export_pdf(dashboard_data)
    IN  [status |-> 200, kind |-> "pdf",
         body |-> [summary |-> whole.body.summary,
                   roomGuestsPct |-> whole.body.roomGuestsPct,
                   venueVisitorsPct |-> whole.body.venueVisitorsPct,
                   charts |-> elements]]

InitWorkers(workers, days) ==
    /\ roomStatus = [r \in Rooms |-> "ready"]
    /\ venueStatus = [v \in Venues |-> "ready"]
    /\ roomRes = SetToBag({[room_id |-> 1, start |-> Date(2024, 1, 30),
                            end |-> Date(2024, 2, 2)]})
    /\ venueRes = SetToBag({[venue_id |-> 1, start |-> Date(2024, 2, 2),
                             end |-> Date(2024, 2, 2)]})
    /\ receipts = SetToBag({[date |-> Date(2024, 2, 2), amount |-> 250]})
    /\ today \in days
    /\ figures = <<>>
    /\ pc = [w \in workers |-> "idle"]
    /\ request = [w \in workers |-> NoArgs]
    /\ response = [w \in workers |-> <<>>]
    /\ locals = [w \in workers |-> <<>>]

\* worker w is done with response r
Finish(w, r) ==
    /\ pc' = [pc EXCEPT ![w] = "done"]
    /\ response' = [response EXCEPT ![w] = r]

\* lines 101-116: worker w takes a request, parses and validates its dates
Receive(w, args) ==
    /\ pc[w] = "idle"
    /\ (Has(args.export) /\ Val(args.export) = "pdf") => Len(figures) < MaxLeaked
    /\ request' = [request EXCEPT ![w] = args]
    /\ \E parsed \in {ParseDates(args, today)} :
          IF ~parsed.ok
          THEN /\ Finish(w, ErrorResponse(400, parsed.error))
               /\ locals' = [locals EXCEPT ![w] = [validated |-> FALSE]]
          ELSE LET view_mode == IF Has(args.viewMode) THEN Val(args.viewMode)
                                ELSE "monthly"
                   window == reset_date_range(parsed.start_date, parsed.end_date,
                                              view_mode, today)
                   prev == PreviousPeriod(window[1], window[2])
               IN  /\ pc' = [pc EXCEPT ![w] = "metrics"]
                   /\ response' = response
                   /\ locals' = [locals EXCEPT ![w] =
                          [validated |-> TRUE, view_mode |-> view_mode,
                           start_date |-> window[1], end_date |-> window[2],
                           prev_start_date |-> prev[1], prev_end_date |-> prev[2],
                           dates |-> DateSeries(window[1], window[2], view_mode),
                           queries |-> 0, faulted |-> FALSE, dashboard_data |-> <<>>,
                           sheets |-> <<>>, chart |-> 1, elements |-> NoElements]]
    /\ UNCHANGED <<dbvars, today, figures>>

\* lines 119-348 without a fault: the queries, the dict dashboard_data and
\* the choice of the output
Metrics(w) ==
    /\ pc[w] = "metrics"
    /\ \E dashboard_data \in {DashboardData(locals[w].start_date, locals[w].end_date,
                                            locals[w].prev_start_date,
                                            locals[w].prev_end_date,
                                            locals[w].view_mode, locals[w].dates)} :
          /\ locals' = [locals EXCEPT ![w].dashboard_data = dashboard_data,
                                      ![w].queries = 17 + 2 * Len(locals[w].dates)]
          /\ IF ~Has(request[w].export) \/ Val(request[w].export) = ""
             THEN Finish(w, [status |-> 200, kind |-> "json", body |-> dashboard_data])
             ELSE IF Val(request[w].export) = "excel"
             THEN pc' = [pc EXCEPT ![w] = "excel"] /\ response' = response
             ELSE IF Val(request[w].export) = "pdf"
             THEN pc' = [pc EXCEPT ![w] = "pdf_figure"] /\ response' = response
             ELSE Finish(w, ErrorResponse(400, "Unsupported export format"))
    /\ UNCHANGED <<dbvars, today, figures, request>>

\* query number k of lines 119-318 raises; the except clause of line 350
\* answers
MetricsFault(w) ==
    /\ pc[w] = "metrics"
    /\ \E k \in 1..(17 + 2 * Len(locals[w].dates)) :
          locals' = [locals EXCEPT ![w].queries = k, ![w].faulted = TRUE]
    /\ Finish(w, get_dashboard_data_except)
    /\ UNCHANGED <<dbvars, today, figures, request>>

\* lines 397-430 of export_excel: the next sheet is written, or the workbook
\* is closed and sent; naming the columns of 'Room Performance' (line 415)
\* raises when there are no rows
ExcelStep(w) ==
    /\ pc[w] = "excel"
    /\ IF Len(locals[w].sheets) < Len(Sheets)
       THEN LET sheet == Sheets[Len(locals[w].sheets) + 1]
            IN  IF sheet = "Room Performance"
                   /\ locals[w].dashboard_data.roomTypePerformance = {}
                THEN /\ Finish(w, export_excel_except(locals[w].sheets))
                     /\ locals' = [locals EXCEPT ![w].faulted = TRUE]
                ELSE /\ pc' = pc
                     /\ response' = response
                     /\ locals' = [locals EXCEPT ![w].sheets = Append(@, sheet)]
       ELSE /\ Finish(w, [status |-> 200, kind |-> "xlsx",
                          body |-> locals[w].dashboard_data])
            /\ locals' = locals
    /\ UNCHANGED <<dbvars, today, figures, request>>

\* a call of lines 357-430 raises
ExcelFault(w) ==
    /\ pc[w] = "excel"
    /\ Finish(w, export_excel_except(locals[w].sheets))
    /\ locals' = [locals EXCEPT ![w].faulted = TRUE]
    /\ UNCHANGED <<dbvars, today, figures, request>>

\* lines 524, 553, 586, 622: plt.figure()
PdfFigure(w) ==
    /\ pc[w] = "pdf_figure"
    /\ figures' = plt_figure(figures)
    /\ pc' = [pc EXCEPT ![w] = IF Charts[locals[w].chart] = "performance"
                               THEN "pdf_subplots" ELSE "pdf_draw"]
    /\ UNCHANGED <<dbvars, today, request, response, locals>>

\* line 625: plt.subplots()
PdfSubplots(w) ==
    /\ pc[w] = "pdf_subplots"
    /\ figures' = plt_figure(figures)
    /\ pc' = [pc EXCEPT ![w] = "pdf_draw"]
    /\ UNCHANGED <<dbvars, today, request, response, locals>>

\* lines 530-535, 559-568, 592-603, 640-649: the pyplot calls that draw
PdfDraw(w) ==
    /\ pc[w] = "pdf_draw"
    /\ figures' = plt_draw(figures, w)
    /\ pc' = [pc EXCEPT ![w] = "pdf_savefig"]
    /\ UNCHANGED <<dbvars, today, request, response, locals>>

\* lines 537-540, 570-573, 605-608, 651-654: the picture of the current
\* figure is appended to the elements
PdfSavefig(w) ==
    /\ pc[w] = "pdf_savefig"
    /\ figures' = plt_savefig(figures)[1]
    /\ locals' = [locals EXCEPT
           ![w].elements = AppendImage(@, plt_savefig(figures)[2], w)]
    /\ pc' = [pc EXCEPT ![w] = "pdf_close"]
    /\ UNCHANGED <<dbvars, today, request, response>>

\* lines 541, 574, 609, 655: plt.close()
PdfClose(w) ==
    /\ pc[w] = "pdf_close"
    /\ figures' = plt_close(figures)
    /\ IF locals[w].chart < Len(Charts)
       THEN /\ pc' = [pc EXCEPT ![w] = "pdf_figure"]
            /\ locals' = [locals EXCEPT ![w].chart = @ + 1]
       ELSE /\ pc' = [pc EXCEPT ![w] = "pdf_conclusion"]
            /\ locals' = locals
    /\ UNCHANGED <<dbvars, today, request, response>>

\* lines 658-680: the conclusion (line 666 divides by the sum of the two
\* visitors values), the build of the document and the response
PdfConclusion(w) ==
    /\ pc[w] = "pdf_conclusion"
    /\ IF export_pdf(locals[w].dashboard_data).status = 500
       THEN /\ Finish(w, export_pdf_except(locals[w].elements))
            /\ locals' = [locals EXCEPT ![w].faulted = TRUE]
       ELSE /\ Finish(w, PdfResponse(locals[w].dashboard_data, locals[w].elements))
            /\ locals' = locals
    /\ UNCHANGED <<dbvars, today, figures, request>>

\* a call of lines 439-680 raises, wherever the worker is in export_pdf
PdfFault(w) ==
    /\ pc[w] \in {"pdf_figure", "pdf_subplots", "pdf_draw", "pdf_savefig",
                  "pdf_close", "pdf_conclusion"}
    /\ Finish(w, export_pdf_except(locals[w].elements))
    /\ locals' = [locals EXCEPT ![w].faulted = TRUE]
    /\ UNCHANGED <<dbvars, today, figures, request>>

\* the response of worker w has left; w waits for the next request
RespondWorker(w) ==
    /\ pc[w] = "done"
    /\ pc' = [pc EXCEPT ![w] = "idle"]
    /\ request' = [request EXCEPT ![w] = NoArgs]
    /\ response' = [response EXCEPT ![w] = <<>>]
    /\ locals' = [locals EXCEPT ![w] = <<>>]
    /\ UNCHANGED <<dbvars, today, figures>>

ReceiveRequest(w) == \E args \in StepRequests : Receive(w, args)

NextSteps ==
    \/ \E w \in DOMAIN pc : ReceiveRequest(w)
    \/ \E w \in DOMAIN pc : Metrics(w)
    \/ \E w \in DOMAIN pc : MetricsFault(w)
    \/ \E w \in DOMAIN pc : ExcelStep(w)
    \/ \E w \in DOMAIN pc : ExcelFault(w)
    \/ \E w \in DOMAIN pc : PdfFigure(w)
    \/ \E w \in DOMAIN pc : PdfSubplots(w)
    \/ \E w \in DOMAIN pc : PdfDraw(w)
    \/ \E w \in DOMAIN pc : PdfSavefig(w)
    \/ \E w \in DOMAIN pc : PdfClose(w)
    \/ \E w \in DOMAIN pc : PdfConclusion(w)
    \/ \E w \in DOMAIN pc : PdfFault(w)
    \/ \E w \in DOMAIN pc : RespondWorker(w)

\* one worker, every step of which may raise
InitFault == InitWorkers({1}, Todays)

SpecFault == InitFault /\ [][NextSteps]_vars

\* GET ?export=pdf
PdfRequest == [NoArgs EXCEPT !.export = <<"pdf">>]

\* the requests served by the two threads
ThreadRequests == {NoArgs, PdfRequest}

ReceiveThreadRequest(w) == \E args \in ThreadRequests : Receive(w, args)

NextThreads ==
    \/ \E w \in DOMAIN pc : ReceiveThreadRequest(w)
    \/ \E w \in DOMAIN pc : Metrics(w)
    \/ \E w \in DOMAIN pc : PdfFigure(w)
    \/ \E w \in DOMAIN pc : PdfSubplots(w)
    \/ \E w \in DOMAIN pc : PdfDraw(w)
    \/ \E w \in DOMAIN pc : PdfSavefig(w)
    \/ \E w \in DOMAIN pc : PdfClose(w)
    \/ \E w \in DOMAIN pc : PdfConclusion(w)
    \/ \E w \in DOMAIN pc : PdfFault(w)
    \/ \E w \in DOMAIN pc : RespondWorker(w)

\* two worker threads of one process, which the interpreter may switch
\* between any two steps
InitThreads == InitWorkers({1, 2}, {Date(2024, 2, 3)})

SpecThreads == InitThreads /\ [][NextThreads]_vars

-----------------------------------------------------------------------------
(* Claims                                                                  *)

\* the run has passed the validation of lines 106-113
Validated == pc = "done" /\ locals.validated

\* the text of a day, written out
Text_2024_02_01 == <<"2", "0", "2", "4", "-", "0", "2", "-", "0", "1">>
Text_2024_02_10 == <<"2", "0", "2", "4", "-", "0", "2", "-", "1", "0">>
Text_2024_02_15 == <<"2", "0", "2", "4", "-", "0", "2", "-", "1", "5">>
Text_2024_02_20 == <<"2", "0", "2", "4", "-", "0", "2", "-", "2", "0">>
Text_2024_02_29 == <<"2", "0", "2", "4", "-", "0", "2", "-", "2", "9">>
Text_2024_06_04 == <<"2", "0", "2", "4", "-", "0", "6", "-", "0", "4">>
Text_2024_06_10 == <<"2", "0", "2", "4", "-", "0", "6", "-", "1", "0">>

\* C1: for every request that passes validation, in either view mode, the
\* previous period has as many days as the aligned current window, ends the
\* day before the window starts, and shares no day with it.
C1_PreviousPeriod ==
    Validated =>
        /\ (locals.prev_end_date - locals.prev_start_date) + 1
               = (locals.end_date - locals.start_date) + 1
        /\ locals.prev_end_date = locals.start_date - 1
        /\ (locals.prev_start_date..locals.prev_end_date)
               \cap (locals.start_date..locals.end_date) = {}
        /\ locals.prev_start_date <= locals.prev_end_date

\* a monthly request for February 2024: the previous period is the 29 days
\* from January 3rd to January 31st
C1_Witness ==
    /\ Validated
    /\ locals.view_mode = "monthly"
    /\ locals.start_date = Date(2024, 2, 1)
    /\ locals.end_date = Date(2024, 2, 29)
    /\ locals.prev_start_date = Date(2024, 1, 3)
    /\ locals.prev_end_date = Date(2024, 1, 31)

\* the value of the rational r is n / d (d > 0)
RatIs(r, n, d) == r.den > 0 /\ r.num * d = n * r.den

\* C2: calculate_percentage_change(current, previous) returns 100 when
\* previous = 0 and current > 0, 0 when previous = 0 and current <= 0, and
\* otherwise (current - previous) / |previous| * 100; pct_change(0, 0) = 0,
\* pct_change(100, 50) = 100 and pct_change(50, 100) = -50.
C2_PercentageChange ==
    pc = "pct_done" =>
        LET current == request.current
            previous == request.previous
            absprev == IF previous >= 0 THEN previous ELSE 0 - previous
        IN  /\ (previous = 0 /\ current > 0) => RatIs(response, 100, 1)
            /\ (previous = 0 /\ current <= 0) => RatIs(response, 0, 1)
            /\ previous # 0 => RatIs(response, (current - previous) * 100, absprev)
            /\ (current = 0 /\ previous = 0) => RatIs(response, 0, 1)
            /\ (current = 100 /\ previous = 50) => RatIs(response, 100, 1)
            /\ (current = 50 /\ previous = 100) => RatIs(response, -50, 1)

\* a drop measured against a negative previous value: from -4 to -6 is -50 %
C2_Witness ==
    /\ pc = "pct_done"
    /\ request.current = -6
    /\ request.previous = -4
    /\ RatIs(response, -50, 1)

\* C3: in the monthly view the window starts on the first day of the month
\* of the requested start and ends on the last day of the month of the
\* requested end, the real last day, leap February included
\* (2024-02-15 .. 2024-02-20 gives 2024-02-01 .. 2024-02-29).
C3_MonthlyAlignment ==
    (Validated /\ locals.view_mode = "monthly") =>
        /\ YearOf(locals.start_date) = YearOf(locals.req_start)
        /\ MonthOf(locals.start_date) = MonthOf(locals.req_start)
        /\ DayOf(locals.start_date) = 1
        /\ YearOf(locals.end_date) = YearOf(locals.req_end)
        /\ MonthOf(locals.end_date) = MonthOf(locals.req_end)
        /\ DayOf(locals.end_date + 1) = 1
        /\ locals.start_date <= locals.req_start
        /\ locals.req_end <= locals.end_date
        /\ (request.startDate = <<Text_2024_02_15>> /\ request.endDate = <<Text_2024_02_20>>)
              => /\ FormatDay(locals.start_date) = Text_2024_02_01
                 /\ FormatDay(locals.end_date) = Text_2024_02_29

C3_Witness ==
    /\ Validated
    /\ locals.view_mode = "monthly"
    /\ request.startDate = <<Text_2024_02_15>>
    /\ request.endDate = <<Text_2024_02_20>>
    /\ FormatDay(locals.end_date) = Text_2024_02_29

\* C4: in the daily view the window of the queries is [today - 6, today],
\* seven days, whatever dates the caller supplied (once they passed
\* validation); no dates and today = 2024-06-10 give 2024-06-04 .. 2024-06-10.
C4_DailyWindow ==
    (Validated /\ locals.view_mode = "daily") =>
        /\ locals.start_date = today - 6
        /\ locals.end_date = today
        /\ locals.dates = <<today - 6, today - 5, today - 4, today - 3,
                            today - 2, today - 1, today>>
        /\ (request.startDate = <<>> /\ request.endDate = <<>>
               /\ FormatDay(today) = Text_2024_06_10)
              => /\ FormatDay(locals.start_date) = Text_2024_06_04
                 /\ FormatDay(locals.end_date) = Text_2024_06_10

\* explicit February dates, discarded on June 10th
C4_Witness ==
    /\ Validated
    /\ locals.view_mode = "daily"
    /\ request.startDate = <<Text_2024_02_15>>
    /\ request.endDate = <<Text_2024_02_20>>
    /\ today = Date(2024, 6, 10)
    /\ FormatDay(locals.start_date) = Text_2024_06_04
    /\ FormatDay(locals.end_date) = Text_2024_06_10

\* a date parameter that is present with a text that is not empty
GivenText(a) == Has(a) /\ Val(a) # <<>>

\* the dates of the request as the endpoint is meant to read them, a missing
\* end being today and a missing start six days before the end; given(a)
\* says which parameters count as supplied
DatesRefused(given(_)) ==
    LET bad(a) == given(a) /\ ~strptime(Val(a)).ok
        end_ == IF given(request.endDate) THEN strptime(Val(request.endDate)).date
                ELSE today
        start_ == IF given(request.startDate) THEN strptime(Val(request.startDate)).date
                  ELSE end_ - 6
    IN  \/ bad(request.startDate)
        \/ bad(request.endDate)
        \/ start_ > end_

\* the answer is a 400 about the dates, and no query ran
AnsweredDates400 ==
    /\ response.status = 400
    /\ response.kind = "json"
    /\ DOMAIN response.body = {"error"}
    /\ response.body.error \in {"Invalid date format. Use YYYY-MM-DD",
                                "Start date cannot be after end date"}
    /\ locals.queries = 0

\* C5 as stated: 400 and no query whenever startDate or endDate is present
\* and does not parse, or the start is after the end, in every view mode;
\* and no 400 for the dates otherwise.
C5_AsStated ==
    pc = "done" => (DatesRefused(Has) <=> AnsweredDates400)

\* C5, amended: the same with "present" read as "present and not empty":
\* an empty startDate or endDate counts as missing and takes its default.
C5_DateValidation ==
    pc = "done" =>
        /\ DatesRefused(GivenText) <=> AnsweredDates400
        /\ AnsweredDates400 <=> ~locals.validated
        /\ locals.validated => locals.queries > 0

\* an inverted range in the daily view, which would discard the dates
C5_Witness ==
    /\ pc = "done"
    /\ request.startDate = <<Text_2024_02_10>>
    /\ request.endDate = <<Text_2024_02_01>>
    /\ request.viewMode = <<"daily">>
    /\ response = ErrorResponse(400, "Start date cannot be after end date")
    /\ locals.queries = 0

\* the answer is the 400 of an unsupported export format, and no document
AnsweredUnsupported ==
    /\ response.status = 400
    /\ response.kind = "json"
    /\ response.body = [error |-> "Unsupported export format"]

\* C6 as stated: valid dates and an export parameter that is present and
\* neither 'excel' nor 'pdf' give 400 "Unsupported export format".
C6_AsStated ==
    (Validated /\ Has(request.export) /\ Val(request.export) \notin {"excel", "pdf"})
        => AnsweredUnsupported

\* C6, amended: valid dates and an export parameter that is present, not
\* empty and neither 'excel' nor 'pdf' give 400 "Unsupported export format"
\* and no document; an empty export parameter gives the JSON answer.
C6_UnsupportedExport ==
    /\ (Validated /\ Has(request.export) /\ Val(request.export) \notin {"", "excel", "pdf"})
           => AnsweredUnsupported
    /\ (Validated /\ request.export = <<"">>)
           => (response.status = 200 /\ response.kind = "json")

C6_Witness ==
    /\ Validated
    /\ request.export = <<"xml">>
    /\ request.startDate = <<Text_2024_02_15>>
    /\ request.endDate = <<Text_2024_02_20>>
    /\ AnsweredUnsupported

\* the run answered 200 with the metrics object
JsonOk == Validated /\ response.status = 200 /\ response.kind = "json"

\* the interval of row r meets the window [lo, hi]
Overlaps(r, lo, hi) == r.start <= hi /\ r.end >= lo

\* C7: export=pdf over a window with no room reservation and no venue
\* reservation is answered 200 with a PDF, not a fault or a 500.
C7_PdfOfEmptyWindow ==
    (/\ Validated
     /\ request.export = <<"pdf">>
     /\ \A r \in BagToSet(roomRes) : ~Overlaps(r, locals.start_date, locals.end_date)
     /\ \A v \in BagToSet(venueRes) : ~Overlaps(v, locals.start_date, locals.end_date))
        => (response.status = 200 /\ response.kind = "pdf")

\* the reservations of ready units that overlap [lo, hi]
BookingsOverlapping(lo, hi) ==
    CountRows(roomRes, LAMBDA r : roomStatus[r.room_id] = "ready" /\ Overlaps(r, lo, hi))
    + CountRows(venueRes, LAMBDA v : venueStatus[v.venue_id] = "ready" /\ Overlaps(v, lo, hi))

\* the reservations of ready units that start inside [lo, hi]
BookingsStarting(lo, hi) ==
    CountRows(roomRes, LAMBDA r :
        roomStatus[r.room_id] = "ready" /\ lo <= r.start /\ r.start <= hi)
    + CountRows(venueRes, LAMBDA v :
        venueStatus[v.venue_id] = "ready" /\ lo <= v.start /\ v.start <= hi)

\* C8 as stated: totalBookings, and the previous count behind
\* totalBookingsChange, count every reservation of a ready unit whose
\* interval overlaps the window.
C8_AsStated ==
    JsonOk =>
        /\ response.body.totalBookings
               = BookingsOverlapping(locals.start_date, locals.end_date)
        /\ response.body.totalBookingsChange
               = Round1(calculate_percentage_change(
                     BookingsOverlapping(locals.start_date, locals.end_date),
                     BookingsOverlapping(locals.prev_start_date, locals.prev_end_date)))

\* C8, amended: totalBookings, and the previous count behind
\* totalBookingsChange, count every reservation of a ready room or venue
\* whose start date lies in the window (window.start <= row.start <=
\* window.end); a reservation that started before the window is not counted.
C8_BookingCount ==
    JsonOk =>
        /\ response.body.totalBookings
               = BookingsStarting(locals.start_date, locals.end_date)
        /\ response.body.totalBookingsChange
               = Round1(calculate_percentage_change(
                     BookingsStarting(locals.start_date, locals.end_date),
                     BookingsStarting(locals.prev_start_date, locals.prev_end_date)))

\* a reservation of a ready room that began before the window and runs into
\* it, and is not counted
C8_Witness ==
    /\ JsonOk
    /\ \E r \in BagToSet(roomRes) :
          /\ roomStatus[r.room_id] = "ready"
          /\ r.start < locals.start_date
          /\ r.end >= locals.start_date
    /\ response.body.totalBookings = 0
    /\ BookingsStarting(locals.prev_start_date, locals.prev_end_date) > 0

\* the reservations of ready rooms with a day in the month written label
RoomsInMonth(label) ==
    CountRows(roomRes, LAMBDA r :
        /\ roomStatus[r.room_id] = "ready"
        /\ \E d \in r.start..r.end : FormatMonth(d) = label)

Text_2024_01 == <<"2", "0", "2", "4", "-", "0", "1">>
Text_2024_02 == <<"2", "0", "2", "4", "-", "0", "2">>

SpanJanFeb == [room_id |-> 1, start |-> Date(2024, 1, 30), end |-> Date(2024, 2, 2)]

\* C9: in the monthly view a reservation of a ready room is counted in the
\* occupancy of every monthly bucket whose month its interval intersects; a
\* reservation from 2024-01-30 to 2024-02-02 is counted in 2024-01 and in
\* 2024-02 when both are in the series.
C9_MonthlyOccupancy ==
    (JsonOk /\ locals.view_mode = "monthly") =>
        LET data == response.body.occupancyData
        IN  /\ \A i \in 1..Len(data) : data[i].occupancy = RoomsInMonth(data[i].date)
            /\ (BagIn(SpanJanFeb, roomRes) /\ roomStatus[1] = "ready")
                  => \A i \in 1..Len(data) :
                        data[i].date \in {Text_2024_01, Text_2024_02}
                            => data[i].occupancy >= CopiesIn(SpanJanFeb, roomRes)

C9_Witness ==
    /\ JsonOk
    /\ locals.view_mode = "monthly"
    /\ BagIn(SpanJanFeb, roomRes)
    /\ roomStatus[1] = "ready"
    /\ Len(response.body.occupancyData) = 2
    /\ response.body.occupancyData[1] = [date |-> Text_2024_01, occupancy |-> 1]
    /\ response.body.occupancyData[2] = [date |-> Text_2024_02, occupancy |-> 1]

\* C10: availableSpaces is the number of ready rooms and venues minus the
\* number of those units with a reservation overlapping the window; each
\* unit is subtracted at most once and the result lies between 0 and the
\* number of ready units.
C10_AvailableSpaces ==
    JsonOk =>
        LET ready_rooms == {r \in Rooms : roomStatus[r] = "ready"}
            ready_venues == {v \in Venues : venueStatus[v] = "ready"}
            busy_rooms == {r \in ready_rooms : \E x \in BagToSet(roomRes) :
                              x.room_id = r /\ Overlaps(x, locals.start_date, locals.end_date)}
            busy_venues == {v \in ready_venues : \E x \in BagToSet(venueRes) :
                              x.venue_id = v /\ Overlaps(x, locals.start_date, locals.end_date)}
            total == Cardinality(ready_rooms) + Cardinality(ready_venues)
        IN  /\ response.body.availableSpaces
                   = total - (Cardinality(busy_rooms) + Cardinality(busy_venues))
            /\ 0 <= response.body.availableSpaces
            /\ response.body.availableSpaces <= total

\* the months since year 0 of the month of a day
MonthIndex(day) == (YearOf(day) * 12) + MonthOf(day)

\* the label of a series entry (lines 216 and 244)
SeriesLabel(day, view_mode) ==
    IF view_mode = "monthly" THEN FormatMonth(day) ELSE FormatDay(day)

\* the lists of a finished run of lines 175-253
SeriesShape ==
    LET dates == locals.dates
        n == Len(dates)
    IN  /\ \A i \in 1..(n - 1) : dates[i] < dates[i + 1]
        /\ IF locals.view_mode = "monthly"
           THEN /\ n = (MonthIndex(locals.end_date) - MonthIndex(locals.start_date)) + 1
                /\ \A i \in 1..n :
                       MonthIndex(dates[i]) = MonthIndex(locals.start_date) + (i - 1)
           ELSE /\ n = (locals.end_date - locals.start_date) + 1
                /\ \A i \in 1..n : dates[i] = locals.start_date + (i - 1)
        /\ Len(locals.occupancy_data) = n
        /\ Len(locals.revenue_data) = n
        /\ \A i \in 1..n :
               /\ locals.occupancy_data[i].date = SeriesLabel(dates[i], locals.view_mode)
               /\ locals.revenue_data[i].date = SeriesLabel(dates[i], locals.view_mode)
        /\ dates = DateSeries(locals.start_date, locals.end_date, locals.view_mode)

\* C12: the date-series loop always terminates, and when it has, the series
\* is strictly increasing, holds exactly one entry per calendar month from
\* the month of the aligned start through the month of the aligned end
\* (monthly) or one entry per day of the window (otherwise), and
\* occupancy_data and revenue_data hold one element per entry, in order.
C12_DateSeries ==
    /\ <>(pc = "series_done")
    /\ [](pc = "series_done" => SeriesShape)

\* a monthly series that crosses from December into January
C12_Witness ==
    /\ pc = "series_done"
    /\ locals.view_mode = "monthly"
    /\ locals.start_date = Date(2023, 12, 1)
    /\ locals.end_date = Date(2024, 2, 29)
    /\ locals.dates = <<Date(2023, 12, 1), Date(2024, 1, 1), Date(2024, 2, 1)>>
    /\ Len(locals.revenue_data) = 3

\* the sum of the revenue values of a revenueData list
RECURSIVE SumRevenue(_)
SumRevenue(data) ==
    IF data = <<>> THEN 0 ELSE Head(data).revenue + SumRevenue(Tail(data))

\* C15: in every successful JSON response, in both view modes, the revenue
\* values of revenueData add up to totalRevenue: the buckets carry distinct
\* labels, each bucket holds exactly the receipts of its month or day, and a
\* receipt has a bucket if and only if it is dated inside the aligned window.
C15_RevenuePartition ==
    JsonOk =>
        LET body == response.body
            data == body.revenueData
            view_mode == locals.view_mode
        IN  /\ SumRevenue(data) = body.totalRevenue
            /\ \A i, j \in 1..Len(data) : data[i].date = data[j].date => i = j
            /\ \A i \in 1..Len(data) :
                   data[i].revenue =
                       SumRows(receipts,
                               LAMBDA r : SeriesLabel(r.date, view_mode) = data[i].date,
                               LAMBDA r : r.amount)
            /\ \A r \in BagToSet(receipts) :
                   (\E i \in 1..Len(data) : data[i].date = SeriesLabel(r.date, view_mode))
                       <=> (locals.start_date <= r.date /\ r.date <= locals.end_date)

\* a monthly answer over February with one receipt inside the window and one
\* before it
C15_WitnessMonthly ==
    /\ JsonOk
    /\ locals.view_mode = "monthly"
    /\ locals.start_date = Date(2024, 2, 1)
    /\ receipts = SetToBag({[date |-> Date(2024, 1, 30), amount |-> 250],
                            [date |-> Date(2024, 2, 2), amount |-> 250]})
    /\ response.body.totalRevenue = 250
    /\ response.body.revenueData = <<[date |-> Text_2024_02, revenue |-> 250]>>

\* a daily answer whose seven buckets hold two receipts on different days
C15_Witness ==
    /\ JsonOk
    /\ locals.view_mode = "daily"
    /\ Len(response.body.revenueData) = 7
    /\ response.body.totalRevenue = 500
    /\ response.body.revenueData[3].revenue = 250
    /\ response.body.revenueData[6].revenue = 250

\* C16: in every successful JSON response, totalBookings is the sum of the
\* two visitors values of visitorData, and visitorTrending is the same
\* number as totalBookingsChange.
C16_VisitorsAreBookings ==
    JsonOk =>
        LET body == response.body
        IN  /\ Len(body.visitorData) = 2
            /\ body.totalBookings =
                   body.visitorData[1].visitors + body.visitorData[2].visitors
            /\ body.visitorTrending = body.totalBookingsChange

\* an answer with a room booking and a venue booking in the window and none
\* in the previous period: 2 bookings, 1 + 1 visitors, both changes 100
C16_Witness ==
    /\ JsonOk
    /\ response.body.totalBookings = 2
    /\ response.body.visitorData[1].visitors = 1
    /\ response.body.visitorData[2].visitors = 1
    /\ RatIs(response.body.visitorTrending, 100, 1)
    /\ RatIs(response.body.totalBookingsChange, 100, 1)

\* a daily answer whose change is 0: as many bookings as the period before
C16_WitnessChange ==
    /\ JsonOk
    /\ response.body.totalBookings = 1
    /\ RatIs(response.body.visitorTrending, 0, 1)
    /\ locals.view_mode = "daily"

\* C14: calculate_percentage_change never raises to its caller: for every
\* pair of arguments, None and values that cannot be subtracted or compared
\* included, a type or arithmetic fault inside it is replaced by the return
\* value 0.
C14_NeverRaises ==
    pc = "call_done" =>
        /\ ~response.raised
        /\ TryBody(request.current, request.previous).raised =>
               RatIs(response.value, 0, 1)

\* what does hold: a TypeError or a ZeroDivisionError of the body is
\* replaced by 0, any other fault reaches the caller
C14_CaughtFaults ==
    pc = "call_done" =>
        LET body == TryBody(request.current, request.previous)
        IN  IF body.raised /\ body.exc \in {"TypeError", "ZeroDivisionError"}
            THEN ~response.raised /\ RatIs(response.value, 0, 1)
            ELSE response = body

\* on two small ints the call returns the value of C2
C14_AgreesOnNumbers ==
    (pc = "call_done" /\ request.current.type = "int" /\ request.previous.type = "int"
        /\ request.current.big = 0 /\ request.previous.big = 0) =>
        /\ ~response.raised
        /\ response.value =
               calculate_percentage_change(request.current.val, request.previous.val)

\* calculate_percentage_change(None, 0) returned 0
C14_WitnessNone ==
    /\ pc = "call_done"
    /\ request.current = PyNone
    /\ request.previous = PyInt(0, 0)
    /\ response = Returned(Rat(0, 1))

\* calculate_percentage_change(10**400, 1) raised OverflowError
C14_WitnessOverflow ==
    /\ pc = "call_done"
    /\ request.current = PyInt(1, 0)
    /\ request.previous = PyInt(0, 1)
    /\ response = Raised("OverflowError")

\* the body of an error answer: the one field "error"
IsErrorBody(r) == r.kind = "json" /\ DOMAIN r.body = {"error"}

\* r is the whole answer of a run on args that nothing disturbs: the full
\* metrics object, the workbook with all its sheets, or the PDF with the
\* summary, the visitor split and all chart images
IsWholeAnswer(r, args, today_, locals_) ==
    LET whole == get_dashboard_data(args, today_).response
    IN  /\ whole.status = 200
        /\ r.kind = whole.kind
        /\ IF r.kind = "pdf"
           THEN /\ r.body.summary = whole.body.summary
                /\ r.body.roomGuestsPct = whole.body.roomGuestsPct
                /\ r.body.venueVisitorsPct = whole.body.venueVisitorsPct
                /\ r.body.charts.images = Len(Charts)
           ELSE r = whole
        /\ r.kind = "xlsx" => locals_.sheets = Sheets

\* C13: every request ends in exactly one of a 400 error body, a 500 error
\* body, or one complete response (the whole metrics object, workbook or
\* PDF); a fault raised at a step of the metric queries, of export_excel or
\* of export_pdf yields a 500 error body, never part of the metrics or of a
\* document.
C13_NoPartialResponse ==
    \A w \in DOMAIN pc :
        pc[w] = "done" =>
            LET r == response[w]
            IN  /\ r.status \in {200, 400, 500}
                /\ r.status \in {400, 500} => IsErrorBody(r)
                /\ r.status = 400 =>
                       r = get_dashboard_data(request[w], today).response
                /\ r.status = 200 =>
                       IsWholeAnswer(r, request[w], today, locals[w])
                /\ (locals[w].validated /\ locals[w].faulted) => r.status = 500

\* a PDF export that raised after two of its four charts: answered 500
C13_Witness ==
    /\ pc[1] = "done"
    /\ locals[1].validated
    /\ locals[1].faulted
    /\ locals[1].elements.images = 2
    /\ response[1] = ErrorResponse(500, "Failed to generate PDF report")

\* the sixth query raised: answered 500 by get_dashboard_data itself
C13_WitnessQuery ==
    /\ pc[1] = "done"
    /\ locals[1].validated
    /\ locals[1].faulted
    /\ locals[1].queries = 6
    /\ response[1] = get_dashboard_data_except

\* a workbook with its five sheets
C13_WitnessWorkbook ==
    /\ pc[1] = "done"
    /\ response[1].status = 200
    /\ response[1].kind = "xlsx"
    /\ locals[1].sheets = Sheets

\* no worker is inside the handler
Quiet == \A w \in DOMAIN pc : pc[w] \in {"idle", "done"}

\* C11: no state survives a request: whenever no request is being served,
\* after any requests served by parallel workers, the registry of open
\* figures is as it was before the first request, and a PDF that was
\* answered shows in its charts only what its own request drew, whatever
\* ran earlier or beside it.
C11_NoStateSurvives ==
    /\ Quiet => figures = <<>>
    /\ \A w \in DOMAIN pc :
           (pc[w] = "done" /\ response[w].status = 200 /\ response[w].kind = "pdf") =>
               ~response[w].body.charts.foreign

\* one PDF export alone, answered 200: the figure of line 622 is still open
C11_WitnessLeak ==
    /\ pc[1] = "done"
    /\ pc[2] = "idle"
    /\ response[1].status = 200
    /\ response[1].kind = "pdf"
    /\ ~response[1].body.charts.foreign
    /\ figures = <<BlankFigure>>

\* two PDF exports side by side, both answered 200: a chart of worker 1
\* shows the drawing of worker 2
C11_WitnessForeign ==
    /\ pc[1] = "done"
    /\ pc[2] = "done"
    /\ response[1].status = 200
    /\ response[2].status = 200
    /\ response[1].kind = "pdf"
    /\ response[1].body.charts.foreign

\* a worker that no other runs beside comes out of the four charts with the
\* registry that Handle gives
C11_StepsAgreeWithHandle ==
    pc[1] = "pdf_conclusion" => figures = ChartsOfPdf(<<>>)

=============================================================================
